---- MODULE Spec2Model ----
(***************************************************************************)
(* A model of install-vulkan-sdk-action: one run of the action, from the   *)
(* reading of the inputs to the final log line, on one platform.           *)
(*                                                                         *)
(* Strings are TLA+ strings; where the code looks inside a string (the     *)
(* version pattern, parseInt, the string comparison) the characters are    *)
(* given by Chars.  A string built by a template literal (a cache key, a   *)
(* URL) is the sequence of its pieces, a path the sequence of its          *)
(* segments.                                                               *)
(***************************************************************************)
EXTENDS Integers, Sequences, FiniteSets, TLC

VARIABLES
    os,              \* platform.OS_PLATFORM: "win32", "linux", "darwin"
    arch,            \* platform.OS_ARCH: "x64", "arm64"
    rawVersion,      \* core.getInput('vulkan_version')
    rawDestination,  \* core.getInput('destination')
    useCache,        \* inputs.useCache
    stripdown,       \* inputs.stripdown
    installRuntime,  \* inputs.installRuntime
    rawOptionalComponents, \* core.getInput('optional_components')
    cacheStore,      \* keys saved in the cache service by earlier runs
    pc,              \* the step run() is about to perform
    inputsVersion,   \* inputs.version
    destination,     \* inputs.destination
    version,         \* the result of resolveVersion
    trace,           \* the steps performed so far, in order
    failures,        \* the core.setFailed calls so far, in order
    warnings,        \* the core.warning calls so far, in order
    restoreArgs,     \* the arguments of cache.restoreCache, <<>> if not called
    saveArgs,        \* the arguments of cache.saveCache, <<>> if not called
    cacheHit,        \* the result of cache.restoreCache, <<>> is undefined
    headUrl,         \* the URL of the last HEAD request
    head,            \* isDownloadable's local: the answer to its HEAD request
    downloadUrl,     \* the URL of the last tc.downloadTool call
    installPath,     \* getVulkanSdk's local installPath
    sdkPath,         \* the path getVulkanSdk returned
    fs,              \* the install root on disk
    latestResponse,  \* resolveVersion's local latestVersion: the document fetched
    runtimeInstallPath, \* installVulkanRuntime's local installPath
    runInstallPath,  \* run's local installPath
    env,             \* the variables exported for the later steps of the job
    optionalComponents,    \* inputs.optionalComponents
    invalidInputComponents, \* the entries getInputOptionalComponents reports as invalid
    installerProcess       \* the installer Start-Process launches: "none",
                           \* "running", "exited" or "failed"

vars == <<os, arch, rawVersion, rawDestination, useCache, stripdown,
          installRuntime, cacheStore, pc, inputsVersion, destination, version,
          trace, failures, warnings, restoreArgs, saveArgs, cacheHit, headUrl,
          head, downloadUrl, installPath, sdkPath, fs, latestResponse,
          runtimeInstallPath, runInstallPath, env, rawOptionalComponents,
          optionalComponents, invalidInputComponents, installerProcess>>

\* what getInputOptionalComponents assigns
componentVars == <<optionalComponents, invalidInputComponents>>

\* what the steps of run() after getVulkanSdk assign
runVars == <<runInstallPath, env>>

inputVars == <<os, arch, rawVersion, rawDestination, useCache, stripdown,
               installRuntime, cacheStore, rawOptionalComponents>>

-----------------------------------------------------------------------------
(* Bounds and the inputs drawn from them *)

\* how many entries of VersionList the inputs, the latest-versions document
\* and the cache service draw from
NumVersions == 3

VersionList ==
    <<"1.3.290.0", "1.4.304.0", "1.3.250.1", "1.3.296.0", "1.3.261.1", "1.4.0.0">>

Versions ==
    {VersionList[i] : i \in 1..(IF NumVersions < Len(VersionList)
                                THEN NumVersions ELSE Len(VersionList))}

MalformedTokens == {"1.3.250", "latest.1.2.3"}

InputTokens == {"", "latest"} \cup Versions \cup MalformedTokens

\* what `${x}` gives for an undefined x
Undefined == "undefined"

\* the platform families: Windows, Windows ARM, Linux, Linux ARM, Mac
Platforms ==
    {<<"win32", "x64">>, <<"win32", "arm64">>, <<"linux", "x64">>,
     <<"linux", "arm64">>, <<"darwin", "arm64">>}

\* "/opt//vk" and the empty input
RawDestinations == {<<>>, <<"", "opt", "", "vk">>}

-----------------------------------------------------------------------------
(* Characters of the strings the code looks into *)

Digits == {"0", "1", "2", "3", "4", "5", "6", "7", "8", "9"}

DigitVal(c) ==
    CASE c = "0" -> 0 [] c = "1" -> 1 [] c = "2" -> 2 [] c = "3" -> 3
      [] c = "4" -> 4 [] c = "5" -> 5 [] c = "6" -> 6 [] c = "7" -> 7
      [] c = "8" -> 8 [] c = "9" -> 9

Chars(s) ==
    CASE s = "" -> <<>>
      [] s = "latest" -> <<"l", "a", "t", "e", "s", "t">>
      [] s = "undefined" -> <<"u", "n", "d", "e", "f", "i", "n", "e", "d">>
      [] s = "1.3.250" -> <<"1", ".", "3", ".", "2", "5", "0">>
      [] s = "latest.1.2.3" ->
             <<"l", "a", "t", "e", "s", "t", ".", "1", ".", "2", ".", "3">>
      [] s = "1.3.250.1" -> <<"1", ".", "3", ".", "2", "5", "0", ".", "1">>
      [] s = "1.3.261.1" -> <<"1", ".", "3", ".", "2", "6", "1", ".", "1">>
      [] s = "1.3.290.0" -> <<"1", ".", "3", ".", "2", "9", "0", ".", "0">>
      [] s = "1.3.296.0" -> <<"1", ".", "3", ".", "2", "9", "6", ".", "0">>
      [] s = "1.4.304.0" -> <<"1", ".", "4", ".", "3", "0", "4", ".", "0">>
      [] s = "1.4.0.0" -> <<"1", ".", "4", ".", "0", ".", "0">>

\* the pieces of a template literal; an empty interpolation adds nothing
Tpl(parts) == SelectSeq(parts, LAMBDA s : s # "")

IsPrefix(p, s) == Len(p) <= Len(s) /\ SubSeq(s, 1, Len(p)) = p

IsStrictPrefix(p, s) == IsPrefix(p, s) /\ Len(p) < Len(s)

-----------------------------------------------------------------------------
(* inputs.ts: the version token *)

RECURSIVE SplitOnDot(_)
SplitOnDot(cs) ==
    IF cs = <<>> THEN << <<>> >>
    ELSE LET rest == SplitOnDot(Tail(cs))
         IN  IF Head(cs) = "." THEN << <<>> >> \o rest
             ELSE << <<Head(cs)>> \o Head(rest) >> \o Tail(rest)

\* /^\d+\.\d+\.\d+\.\d+$/
validateVersion(v) ==
    LET parts == SplitOnDot(Chars(v))
    IN  /\ Len(parts) = 4
        /\ \A i \in 1..Len(parts) :
              /\ parts[i] # <<>>
              /\ \A j \in 1..Len(parts[i]) : parts[i][j] \in Digits

\* !s for a string s
Falsy(s) == s = ""

\* "throws" stands for the rejected promise
getInputVersion(requestedVersion) ==
    IF requestedVersion = "" THEN "latest"
    ELSE IF Falsy(requestedVersion) /\ ~validateVersion(requestedVersion)
         THEN "throws"
         ELSE requestedVersion

-----------------------------------------------------------------------------
(* inputs.ts: the optional components *)

\* The optional_components input is the sequence of its pieces: a comma, a
\* blank, or a word without commas or blanks.

optionalComponentsAllowlist ==
    {"com.lunarg.vulkan.32bit", "com.lunarg.vulkan.sdl2", "com.lunarg.vulkan.glm",
     "com.lunarg.vulkan.volk", "com.lunarg.vulkan.vma", "com.lunarg.vulkan.debug32",
     "com.lunarg.vulkan.thirdparty", "com.lunarg.vulkan.debug"}

\* the longest optional_components input, in pieces
MaxInputLen == 4

InputPieces == {",", " ", "com.lunarg.vulkan.vma", "com.lunarg.vulkan.glm", "bogus.one"}

RECURSIVE SeqsUpTo(_, _)
SeqsUpTo(S, n) ==
    IF n = 0 THEN {<<>>}
    ELSE LET shorter == SeqsUpTo(S, n - 1)
         IN  shorter \cup {Append(q, x) : q \in shorter, x \in S}

OptionalComponentsInputs == SeqsUpTo(InputPieces, MaxInputLen)

\* the input of the runs of the action: "com.lunarg.vulkan.vma,bogus.one"
RunOptionalComponents == <<"com.lunarg.vulkan.vma", ",", "bogus.one">>

\* String.prototype.split(',')
RECURSIVE split(_)
split(cs) ==
    IF cs = <<>> THEN << <<>> >>
    ELSE LET rest == split(Tail(cs))
         IN  IF Head(cs) = "," THEN << <<>> >> \o rest
             ELSE << <<Head(cs)>> \o Head(rest) >> \o Tail(rest)

\* String.prototype.trim
RECURSIVE trim(_)
trim(item) ==
    IF item = <<>> THEN <<>>
    ELSE IF Head(item) = " " THEN trim(Tail(item))
    ELSE IF item[Len(item)] = " " THEN trim(SubSeq(item, 1, Len(item) - 1))
    ELSE item

MapSeq(f(_), q) == [i \in 1..Len(q) |-> f(q[i])]

\* optionalComponents.split(',').map(item => item.trim()).filter(Boolean)
inputComponents(raw) ==
    SelectSeq(MapSeq(trim, split(raw)), LAMBDA item : item # <<>>)

\* optionalComponentsAllowlist.includes(item): the item is one word of the list
includes(item) == Len(item) = 1 /\ item[1] \in optionalComponentsAllowlist

\* a getInputOptionalComponents that hands every entry to the installer
getInputOptionalComponentsUnfiltered(raw) ==
    IF raw = <<>> THEN <<>> ELSE inputComponents(raw)

\* the entries getInputOptionalComponents returns
getInputOptionalComponents(raw) ==
    IF raw = <<>> THEN <<>>
    ELSE SelectSeq(inputComponents(raw), LAMBDA item : includes(item) = TRUE)

\* the entries getInputOptionalComponents logs as invalid
getInvalidInputComponents(raw) ==
    IF raw = <<>> THEN <<>>
    ELSE SelectSeq(inputComponents(raw), LAMBDA item : includes(item) = FALSE)

-----------------------------------------------------------------------------
(* versions.ts *)

NaN == -1

StripDots(cs) == SelectSeq(cs, LAMBDA c : c # ".")

RECURSIVE DigitsValue(_, _)
DigitsValue(cs, acc) ==
    IF cs = <<>> \/ Head(cs) \notin Digits THEN acc
    ELSE DigitsValue(Tail(cs), acc * 10 + DigitVal(Head(cs)))

\* Number.parseInt: the leading digits, NaN when there are none
ParseInt(cs) ==
    IF cs = <<>> \/ Head(cs) \notin Digits THEN NaN ELSE DigitsValue(cs, 0)

\* a comparison component by component, the way version numbers are
\* usually ordered: 1.4.0.0 comes after 1.3.290.0
compareByComponents(v1, v2) ==
    LET RECURSIVE cmp(_, _)
        cmp(a, b) ==
            IF a = <<>> \/ b = <<>> THEN 0
            ELSE IF DigitsValue(Head(a), 0) < DigitsValue(Head(b), 0) THEN -1
            ELSE IF DigitsValue(Head(a), 0) > DigitsValue(Head(b), 0) THEN 1
            ELSE cmp(Tail(a), Tail(b))
    IN  cmp(SplitOnDot(Chars(v1)), SplitOnDot(Chars(v2)))

compare(v1, v2) ==
    LET intV1 == ParseInt(StripDots(Chars(v1)))
        intV2 == ParseInt(StripDots(Chars(v2)))
        bothNumbers == intV1 # NaN /\ intV2 # NaN
    IN  IF bothNumbers /\ intV1 < intV2 THEN -1
        ELSE IF bothNumbers /\ intV1 > intV2 THEN 1
        ELSE 0

-----------------------------------------------------------------------------
(* platform.ts *)

IS_WINDOWS == os = "win32"
IS_LINUX == os = "linux"
IS_MAC == os = "darwin"
IS_WARM == IS_WINDOWS /\ arch = "arm64"

\* main.ts, inputs.ts and versions_vulkan.ts read platform.IS_WINDOWS_ARM and
\* platform.IS_LINUX_ARM, which platform.ts does not export: the reads give
\* undefined, which is falsy
IS_WINDOWS_ARM == FALSE
IS_LINUX_ARM == FALSE

HOME_DIR == <<"", "home", "runner">>
TEMP_DIR == <<"", "tmp">>

getPlatform ==
    IF IS_WINDOWS THEN "windows"
    ELSE IF IS_WARM THEN "warm"
    ELSE IF IS_MAC THEN "mac"
    ELSE os

-----------------------------------------------------------------------------
(* paths *)

\* path.normalize: repeated separators collapse, "." segments go; the root
\* and a trailing separator stay
normalize(p) ==
    LET keep(i) == \/ i = 1
                   \/ (i = Len(p) /\ p[i] # ".")
                   \/ (p[i] # "" /\ p[i] # ".")
        RECURSIVE from(_)
        from(i) == IF i > Len(p) THEN <<>>
                   ELSE IF keep(i) THEN <<p[i]>> \o from(i + 1)
                   ELSE from(i + 1)
    IN  from(1)

\* `${dir}/${name}`
Slash(dir, name) == dir \o <<name>>

getInputDestination(d) ==
    LET d1 == IF d = <<>> /\ (IS_WINDOWS \/ IS_WINDOWS_ARM)
              THEN <<"C:", "VulkanSDK", "">> ELSE d
        d2 == IF d = <<>> /\ IS_LINUX THEN Slash(HOME_DIR, "vulkan-sdk") ELSE d1
        d3 == IF d = <<>> /\ IS_MAC THEN Slash(HOME_DIR, "vulkan-sdk") ELSE d2
    IN  normalize(d3)

-----------------------------------------------------------------------------
(* versions_vulkan.ts *)

\* the fields a latest-versions document may carry; Undefined is a field
\* the document lacks
DocVersions == {VersionList[1], VersionList[2], Undefined}

LatestDocs ==
    [windows : DocVersions, warm : DocVersions, linux : DocVersions,
     mac : DocVersions]

getLatestVersionForPlatform(latestVersion) ==
    IF IS_WINDOWS THEN latestVersion.windows
    ELSE IF IS_WINDOWS_ARM THEN latestVersion.warm
    ELSE IF IS_LINUX \/ IS_LINUX_ARM THEN latestVersion.linux
    ELSE IF IS_MAC THEN latestVersion.mac
    ELSE ""

\* resolveVersion, given whether getLatestVersions threw and the document it
\* returned: the version returned and the core.setFailed calls made
resolveVersion(v, fetchThrows, latestVersion) ==
    IF v = "latest"
    THEN IF fetchThrows
         THEN [version |-> v, failed |-> <<"resolveVersion">>]
         ELSE [version |-> getLatestVersionForPlatform(latestVersion),
               failed |-> <<>>]
    ELSE [version |-> v, failed |-> <<>>]

-----------------------------------------------------------------------------
(* main.ts: cache keys *)

\* restore keys listed least specific first
getCacheKeysReversed(v, path) ==
    [cachePrimaryKey |->
        Tpl(<<"cache-", getPlatform, "-", arch, "-", "vulkan-sdk-", v>>),
     cacheRestoreKeys |->
        << Tpl(<<"cache-", getPlatform, "-", arch, "-">>),
           Tpl(<<"cache-", getPlatform, "-", arch, "-", "vulkan-sdk-">>) >>]

getCacheKeys(v, path) ==
    [cachePrimaryKey |->
        Tpl(<<"cache-", getPlatform, "-", arch, "-", "vulkan-sdk-", v>>),
     cacheRestoreKeys |->
        << Tpl(<<"cache-", getPlatform, "-", arch, "-", "vulkan-sdk-">>),
           Tpl(<<"cache-", getPlatform, "-", arch, "-">>) >>]

\* @actions/cache restoreCache: the key of a stored entry matched by the
\* primary key or, failing that, by the restore keys in order (a key matches
\* the entries it is a prefix of); <<>> (undefined) when nothing matches or
\* the service cannot be reached
RECURSIVE RestoreMatches(_, _)
RestoreMatches(keys, store) ==
    IF keys = <<>> THEN {}
    ELSE LET m == {e \in store : IsPrefix(Head(keys), e)}
         IN  IF m # {} THEN m ELSE RestoreMatches(Tail(keys), store)

restoreCache(paths, primaryKey, restoreKeys, store) ==
    {<<>>} \cup RestoreMatches(<<primaryKey>> \o restoreKeys, store)

-----------------------------------------------------------------------------
(* http.ts *)

\* what client.head(url) may do: answer with a status code, answer without
\* one, throw an Error, throw something else
HeadOutcomes ==
    [kind : {"status"}, code : {200, 204, 302, 404, 500}]
        \cup [kind : {"nostatus", "error", "nonerror"}, code : {0}]

\* no HEAD request is being looked at
NoHead == [kind |-> "none", code |-> 0]

\* isDownloadable: the core.setFailed calls it makes; it returns normally in
\* every case
isDownloadable(name, response) ==
    IF response.kind = "status"
    THEN IF response.code >= 400 THEN <<name>> ELSE <<>>
    ELSE IF response.kind = "error" THEN <<name>> ELSE <<>>

\* an isDownloadable without the try block around client.head
isDownloadableThrowsUncaught(response) == response.kind \in {"error", "nonerror"}

\* whether isDownloadable lets the exception of client.head escape
isDownloadableThrows(response) == FALSE

-----------------------------------------------------------------------------
(* downloader.ts *)

LinuxDistributions == {"20.04", "24.04", ""}

\* a getUrlVulkanSdk whose Linux test is compare(...) >= 0: the threshold
\* version itself gets tar.xz
getUrlVulkanSdkLinuxInclusive(v, distro) ==
    LET downloadBaseUrl ==
            <<"https://sdk.lunarg.com/sdk/download/", v, "/", getPlatform>>
    IN  IF IS_MAC
        THEN Tpl(downloadBaseUrl \o
                 <<"/vulkansdk-macos-", v, ".",
                   IF compare(v, "1.3.290.0") = 1 THEN "zip" ELSE "dmg">>)
        ELSE IF IS_LINUX
        THEN Tpl(downloadBaseUrl \o
                 <<"/vulkansdk-linux-x86_64-", v, ".",
                   IF compare(v, "1.3.250.1") >= 0 THEN "tar.xz" ELSE "tar.gz">>)
        ELSE IF IS_WARM
        THEN Tpl(downloadBaseUrl \o <<"/InstallVulkanARM64-", v, ".exe">>)
        ELSE Tpl(downloadBaseUrl \o <<"/VulkanSDK-", v, "-Installer.exe">>)

\* a getUrlVulkanSdk whose Mac test is compare(...) >= 0: the threshold
\* version itself gets zip
getUrlVulkanSdkMacInclusive(v, distro) ==
    LET downloadBaseUrl ==
            <<"https://sdk.lunarg.com/sdk/download/", v, "/", getPlatform>>
    IN  IF IS_MAC
        THEN Tpl(downloadBaseUrl \o
                 <<"/vulkansdk-macos-", v, ".",
                   IF compare(v, "1.3.290.0") >= 0 THEN "zip" ELSE "dmg">>)
        ELSE IF IS_LINUX
        THEN Tpl(downloadBaseUrl \o
                 <<"/vulkansdk-linux-x86_64-", v, ".",
                   IF compare(v, "1.3.250.1") = 1 THEN "tar.xz" ELSE "tar.gz">>)
        ELSE IF IS_WARM
        THEN Tpl(downloadBaseUrl \o <<"/InstallVulkanARM64-", v, ".exe">>)
        ELSE Tpl(downloadBaseUrl \o <<"/VulkanSDK-", v, "-Installer.exe">>)

getUrlVulkanSdk(v, distro) ==
    LET platformName == getPlatform
        downloadBaseUrl ==
            <<"https://sdk.lunarg.com/sdk/download/", v, "/", platformName>>
        u0 == <<>>
        u1 == IF IS_WINDOWS
              THEN Tpl(downloadBaseUrl \o <<"/VulkanSDK-", v, "-Installer.exe">>)
              ELSE u0
        u2 == IF IS_WARM
              THEN Tpl(downloadBaseUrl \o <<"/InstallVulkanARM64-", v, ".exe">>)
              ELSE u1
        distributionVersion == IF distro = "20.04" THEN "20.04" ELSE "24.04"
        u3 == IF IS_LINUX /\ arch = "arm64"
              THEN Tpl(<<"https://github.com/jakoch/vulkan-sdk-arm/releases/download/",
                         v, "/vulkansdk-ubuntu-", distributionVersion, "-arm-",
                         v, ".tar.xz">>)
              ELSE u2
        u4 == IF IS_LINUX
              THEN Tpl(downloadBaseUrl \o
                       <<"/vulkansdk-linux-x86_64-", v, ".",
                         IF compare(v, "1.3.250.1") = 1 THEN "tar.xz" ELSE "tar.gz">>)
              ELSE u3
        u5 == IF IS_MAC
              THEN Tpl(downloadBaseUrl \o
                       <<"/vulkansdk-macos-", v, ".",
                         IF compare(v, "1.3.290.0") = 1 THEN "zip" ELSE "dmg">>)
              ELSE u4
    IN  u5

getUrlVulkanRuntime(v) ==
    Tpl(<<"https://sdk.lunarg.com/sdk/download/", v, "/", getPlatform,
          "/vulkan-runtime-components.zip">>)

\* the file name as its stem and its extension
getVulkanSdkFilename(v) ==
    IF IS_WINDOWS \/ IS_WARM THEN <<"VulkanSDK-Installer", ".exe">>
    ELSE IF IS_LINUX
    THEN IF compare(v, "1.3.250.1") = 1
         THEN <<"vulkansdk-linux-x86_64", ".tar.xz">>
         ELSE <<"vulkansdk-linux-x86_64", ".tar.gz">>
    ELSE IF IS_MAC
    THEN IF compare(v, "1.3.290.0") = 1
         THEN <<"vulkansdk-macos", ".zip">>
         ELSE <<"vulkansdk-macos", ".dmg">>
    ELSE <<"not-implemented-for-platform", "">>


-----------------------------------------------------------------------------
(* installer_vulkan.ts *)

CharCode(c) ==
    IF c \in Digits THEN 48 + DigitVal(c)
    ELSE CASE c = "." -> 46
           [] c = "a" -> 97 [] c = "d" -> 100 [] c = "e" -> 101
           [] c = "f" -> 102 [] c = "i" -> 105 [] c = "l" -> 108
           [] c = "n" -> 110 [] c = "s" -> 115 [] c = "t" -> 116
           [] c = "u" -> 117

\* a <= b for two strings, by code units
RECURSIVE CharsLE(_, _)
CharsLE(a, b) ==
    IF a = <<>> THEN TRUE
    ELSE IF b = <<>> THEN FALSE
    ELSE IF CharCode(Head(a)) < CharCode(Head(b)) THEN TRUE
    ELSE IF CharCode(Head(a)) > CharCode(Head(b)) THEN FALSE
    ELSE CharsLE(Tail(a), Tail(b))

StringLE(a, b) == CharsLE(Chars(a), Chars(b))

\* installVulkanSdk: the install procedure it dispatches to and the
\* destination it hands to it
installVulkanSdk(dest, v) ==
    IF IS_MAC
    THEN IF StringLE(v, "1.3.290.0")
         THEN [procedure |-> "installVulkanSdkMacDmg", destination |-> dest]
         ELSE [procedure |-> "installVulkanSdkMacZip", destination |-> dest]
    ELSE IF IS_LINUX
    THEN [procedure |-> "installVulkanSdkLinux", destination |-> dest]
    ELSE IF IS_WINDOWS \/ IS_WARM
    THEN [procedure |-> "installVulkanSdkWindows",
          destination |-> normalize(Slash(dest, v))]
    ELSE [procedure |-> "none", destination |-> <<>>]

\* extractArchive: whether an extraction function is assigned for the file
extractArchiveAssigned(file) ==
    IF IS_WINDOWS \/ IS_WARM THEN file[2] \in {".exe", ".zip", ".7z"}
    ELSE IF IS_MAC THEN TRUE
    ELSE IF IS_LINUX THEN file[2] \in {".tar.gz", ".tar.xz"}
    ELSE FALSE

\* what the steps of an install procedure may do: each external command or
\* extraction succeeds or fails
InstallOutcomes ==
    [mount : BOOLEAN, volume : BOOLEAN, copy : BOOLEAN, extract : BOOLEAN,
     installer : BOOLEAN]

\* the core.setFailed calls of the install procedure, in order
installFailures(procedure, o) ==
    IF procedure = "installVulkanSdkMacDmg"
    THEN (IF o.mount THEN <<>> ELSE <<"mount">>)
         \o (IF o.volume THEN <<>> ELSE <<"volume">>)
         \o (IF o.copy THEN <<>> ELSE <<"copy">>)
         \o (IF o.installer THEN <<>> ELSE <<"installer">>)
    ELSE IF procedure = "installVulkanSdkMacZip"
    THEN IF o.extract /\ ~o.installer THEN <<"installer">> ELSE <<>>
    ELSE IF procedure = "installVulkanSdkWindows"
    THEN IF o.installer THEN <<>> ELSE <<"installer">>
    ELSE <<>>

\* an install procedure that lets the failure of the installer escape
installThrowsOnInstallerFailure(procedure, file, o) == ~o.installer

\* whether the install procedure throws: only the extractions are outside a
\* try block
installThrows(procedure, file, o) ==
    IF procedure \in {"installVulkanSdkLinux", "installVulkanSdkMacZip"}
    THEN ~extractArchiveAssigned(file) \/ ~o.extract
    ELSE FALSE

\* whether the install procedure left an SDK tree in its destination
installWrites(procedure, file, o) ==
    IF procedure = "installVulkanSdkLinux"
    THEN ~installThrows(procedure, file, o)
    ELSE IF procedure = "installVulkanSdkMacDmg"
    THEN o.mount /\ o.volume /\ o.copy /\ o.installer
    ELSE IF procedure = "installVulkanSdkMacZip"
    THEN ~installThrows(procedure, file, o) /\ o.installer
    ELSE IF procedure = "installVulkanSdkWindows"
    THEN o.installer
    ELSE FALSE

FoldersToDelete ==
    {"Demos", "Helpers", "installerResources", "Licenses", "Templates"}

\* An install root on disk: whether it exists, its subfolders, the regular
\* files directly in it, and the files below its subfolders, each as the
\* path from the root.

\* the trees the Windows installer may leave in the install root
InstalledTrees ==
    {[dirs |-> {"bin", "Demos", "Licenses"}, files |-> {"installer.dat"},
      contents |-> {<<"bin", "vulkaninfoSDK.exe">>, <<"Demos", "vkcube.exe">>,
                    <<"Licenses", "LICENSE.txt">>}],
     [dirs |-> {"bin", "lib", "Demos"}, files |-> {},
      contents |-> {<<"bin", "vulkaninfoSDK.exe">>, <<"lib", "vulkan-1.lib">>}]}

\* the tree an extracted Linux or Mac archive, or a restored cache entry,
\* leaves in the install root
ExtractedTree ==
    [dirs |-> {"bin", "Demos"}, files |-> {"setup-env.sh"},
     contents |-> {<<"bin", "vulkaninfo">>, <<"Demos", "vkcube">>}]

\* what the runtime copy adds below the install root
RuntimeFiles == {<<"runtime", "x64", "vulkan-1.dll">>}

NoTree ==
    [root |-> FALSE, dirs |-> {}, files |-> {}, contents |-> {}, version |-> ""]

\* removeFoldersIfExist: each listed folder that exists goes with all it
\* holds; the try block of removeFolderIfExists lets nothing escape
removeFoldersIfExist(tree) ==
    [tree EXCEPT !.dirs = @ \ FoldersToDelete,
                 !.contents = {c \in @ : c[1] \notin FoldersToDelete}]

\* the core.info line of removeFolderIfExists for each listed folder
removeFoldersIfExistLog(tree) ==
    {<<folder, IF folder \in tree.dirs THEN "Deleted folder" ELSE "doesn't exist">> :
        folder \in FoldersToDelete}

\* a deleteFilesInFolder without the isDirectory test: the subfolders go too
deleteFilesInFolderAndSubfolders(tree) ==
    [tree EXCEPT !.files = {}, !.dirs = {}, !.contents = {}]

\* deleteFilesInFolder: the regular files directly in the folder go, the
\* subfolders are skipped
deleteFilesInFolder(tree) == [tree EXCEPT !.files = {}]

\* fs.readdirSync of a folder that does not exist throws
deleteFilesInFolderThrows(tree) == ~tree.root

\* stripdownInstallationOfSdk
stripdownThrows(tree) ==
    (IS_WINDOWS \/ IS_WARM) /\ deleteFilesInFolderThrows(tree)

stripdownInstallationOfSdk(tree) ==
    IF IS_WINDOWS \/ IS_WARM
    THEN IF deleteFilesInFolderThrows(tree) THEN removeFoldersIfExist(tree)
         ELSE deleteFilesInFolder(removeFoldersIfExist(tree))
    ELSE tree

\* installVulkanRuntime: the folder the runtime is copied into
installVulkanRuntime(dest, v) ==
    normalize(Slash(Slash(dest, v), "runtime"))

\* getVulkanSdkPath is not among the source files.  The install path is
\* destination/version or the extraction root: the path getVulkanSdk
\* returned, or its version-qualified subfolder
getVulkanSdkPath(path, v) == {path, normalize(Slash(path, v))}

-----------------------------------------------------------------------------
(* main.ts: the environment run() exports *)

\* no document was fetched
NoResponse == [windows |-> "", warm |-> "", linux |-> "", mac |-> ""]

\* nothing is exported
NoEnv == [name \in {} |-> <<>>]

\* PATH before the run, as the list of its entries
PreexistingPath == << <<"", "usr", "bin">> >>

\* process.env.LD_LIBRARY_PATH || '': unset, or one entry
LdLibraryPaths == {<<>>, <<"", "usr", "lib">>}

\* the exports without the core.addPath call
exportEnvNoAddPath(path, v, ldLibraryPath) ==
    LET vkLdLibraryPath == <<Slash(path, "lib"), ldLibraryPath>>
        e0 == [PATH |-> PreexistingPath, VULKAN_SDK |-> path, VULKAN_VERSION |-> v]
        e1 == [VK_LAYER_PATH |-> path \o <<"etc", "vulkan", "explicit_layer.d">>]
    IN  IF IS_LINUX THEN e0 @@ e1 @@ [LD_LIBRARY_PATH |-> vkLdLibraryPath]
        ELSE IF IS_MAC THEN e0 @@ e1 @@ [DYLD_LIBRARY_PATH |-> vkLdLibraryPath]
        ELSE e0

\* the exports of run() for an install path whose probe was found: PATH with
\* core.addPath's entry in front, and each variable of core.exportVariable;
\* `${installPath}/lib:${ldLibraryPath}` is the list of its two entries
exportEnv(path, v, ldLibraryPath) ==
    LET binFolder == normalize(Slash(path, "bin"))
        vkLayerPath == path \o <<"etc", "vulkan", "explicit_layer.d">>
        vkLdLibraryPath == <<Slash(path, "lib"), ldLibraryPath>>
        e0 == [PATH |-> <<binFolder>> \o PreexistingPath,
               VULKAN_SDK |-> path,
               VULKAN_VERSION |-> v]
        e1 == IF IS_LINUX \/ IS_LINUX_ARM \/ IS_MAC
              THEN e0 @@ [VK_LAYER_PATH |-> vkLayerPath] ELSE e0
        e2 == IF (IS_LINUX \/ IS_LINUX_ARM \/ IS_MAC) /\ (IS_LINUX \/ IS_LINUX_ARM)
              THEN e1 @@ [LD_LIBRARY_PATH |-> vkLdLibraryPath] ELSE e1
        e3 == IF (IS_LINUX \/ IS_LINUX_ARM \/ IS_MAC) /\ IS_MAC
              THEN e2 @@ [DYLD_LIBRARY_PATH |-> vkLdLibraryPath] ELSE e2
    IN  e3

-----------------------------------------------------------------------------
(* main.ts: run() and getVulkanSdk(), one action per awaited step *)

\* the state before getInputs, everything but the inputs
InitRun ==
    /\ pc = "getInputs"
    /\ inputsVersion = ""
    /\ destination = <<>>
    /\ version = ""
    /\ trace = <<>>
    /\ failures = <<>>
    /\ warnings = <<>>
    /\ restoreArgs = <<>>
    /\ saveArgs = <<>>
    /\ cacheHit = <<>>
    /\ headUrl = <<>>
    /\ head = NoHead
    /\ downloadUrl = <<>>
    /\ installPath = <<>>
    /\ sdkPath = <<>>
    /\ fs = NoTree
    /\ latestResponse = NoResponse
    /\ runtimeInstallPath = <<>>
    /\ runInstallPath = <<>>
    /\ env = NoEnv
    /\ optionalComponents = <<>>
    /\ invalidInputComponents = <<>>
    /\ installerProcess = "none"

Init ==
    /\ \E p \in Platforms : os = p[1] /\ arch = p[2]
    /\ rawVersion \in InputTokens
    /\ rawDestination \in RawDestinations
    /\ useCache \in BOOLEAN
    /\ stripdown \in BOOLEAN
    /\ installRuntime \in BOOLEAN
    /\ cacheStore \in {{}, {getCacheKeys(VersionList[1], <<>>).cachePrimaryKey}}
    /\ rawOptionalComponents = RunOptionalComponents
    /\ InitRun

Step(name) == trace' = Append(trace, name)

\* const inputs = await input.getInputs()
GetInputs ==
    /\ pc = "getInputs"
    /\ Step("getInputs")
    /\ IF getInputVersion(rawVersion) = "throws"
       THEN /\ pc' = "errorHandler"
            /\ UNCHANGED <<inputsVersion, destination, componentVars>>
       ELSE /\ inputsVersion' = getInputVersion(rawVersion)
            /\ destination' = getInputDestination(rawDestination)
            /\ optionalComponents' = getInputOptionalComponents(rawOptionalComponents)
            /\ invalidInputComponents' =
                  getInvalidInputComponents(rawOptionalComponents)
            /\ pc' = "resolveVersion"
    /\ UNCHANGED <<inputVars, version, failures, warnings, restoreArgs, saveArgs,
                   cacheHit, headUrl, head, downloadUrl, installPath, sdkPath, fs>>
    /\ UNCHANGED <<latestResponse, runtimeInstallPath, runVars>>
    /\ UNCHANGED installerProcess

\* const version = await versionsVulkan.resolveVersion(inputs.version)
ResolveVersion ==
    /\ pc = "resolveVersion"
    /\ Step("resolveVersion")
    /\ \E fetchThrows \in BOOLEAN, latestVersion \in LatestDocs :
          LET r == resolveVersion(inputsVersion, fetchThrows, latestVersion)
          IN  /\ version' = r.version
              /\ failures' = failures \o r.failed
              /\ latestResponse' = IF inputsVersion = "latest" /\ ~fetchThrows
                                    THEN latestVersion ELSE NoResponse
    /\ pc' = "getVulkanSdk"
    /\ UNCHANGED <<head, inputVars, inputsVersion, destination, warnings, restoreArgs,
                   saveArgs, cacheHit, headUrl, downloadUrl, installPath,
                   sdkPath, fs>>
    /\ UNCHANGED <<runtimeInstallPath, runVars>>
    /\ UNCHANGED componentVars
    /\ UNCHANGED installerProcess

\* a getVulkanSdk that never asks the cache before it downloads
EnterGetVulkanSdkNoRestore ==
    /\ pc = "getVulkanSdk"
    /\ Step("getCacheKeys")
    /\ latestResponse' = NoResponse
    /\ pc' = "getUrlVulkanSdk"
    /\ UNCHANGED <<head, inputVars, inputsVersion, destination, version, failures,
                   warnings, restoreArgs, saveArgs, cacheHit, headUrl,
                   downloadUrl, installPath, sdkPath, fs, runtimeInstallPath,
                   runVars, componentVars, installerProcess>>

\* getVulkanSdk is entered: the cache keys are computed
EnterGetVulkanSdk ==
    /\ pc = "getVulkanSdk"
    /\ Step("getCacheKeys")
    /\ latestResponse' = NoResponse
    /\ pc' = IF useCache THEN "restoreCache" ELSE "getUrlVulkanSdk"
    /\ UNCHANGED <<head, inputVars, inputsVersion, destination, version, failures,
                   warnings, restoreArgs, saveArgs, cacheHit, headUrl,
                   downloadUrl, installPath, sdkPath, fs>>
    /\ UNCHANGED <<runtimeInstallPath, runVars>>
    /\ UNCHANGED componentVars
    /\ UNCHANGED installerProcess

\* a restore of the bare destination on every platform
restorePathsBare(dest, v) == <<dest>>

\* the paths getVulkanSdk hands to cache.restoreCache
restorePaths(dest, v) ==
    IF IS_WINDOWS \/ IS_WINDOWS_ARM THEN <<normalize(Slash(dest, v))>>
    ELSE <<dest>>

\* a getVulkanSdk that goes on to download and install on a cache hit
returnsOnRestoreNever(hit) == FALSE

\* what getVulkanSdk does with the result of cache.restoreCache: return
\* early or go on
returnsOnRestore(hit) == hit # <<>>

\* cacheHit = await cache.restoreCache(...), and the early return on a hit
RestoreCache ==
    /\ pc = "restoreCache"
    /\ Step("restoreCache")
    /\ LET keys == getCacheKeys(version, destination)
           paths == restorePaths(destination, version)
       IN  /\ restoreArgs' = <<paths, keys.cachePrimaryKey, keys.cacheRestoreKeys>>
           /\ \E hit \in restoreCache(paths, keys.cachePrimaryKey,
                                      keys.cacheRestoreKeys, cacheStore) :
                 /\ cacheHit' = hit
                 /\ IF returnsOnRestore(hit)
                    THEN /\ sdkPath' = destination
                         /\ fs' = [root |-> TRUE, dirs |-> ExtractedTree.dirs,
                                   files |-> ExtractedTree.files,
                                   contents |-> ExtractedTree.contents,
                                   version |-> IF Len(hit) = 7 THEN hit[7] ELSE ""]
                         /\ pc' = "verifySdk"
                    ELSE /\ pc' = "getUrlVulkanSdk"
                         /\ UNCHANGED <<sdkPath, fs>>
    /\ UNCHANGED <<inputVars, inputsVersion, destination, version, failures,
                   warnings, saveArgs, headUrl, head, downloadUrl, installPath>>
    /\ UNCHANGED <<latestResponse, runtimeInstallPath, runVars>>
    /\ UNCHANGED componentVars
    /\ UNCHANGED installerProcess

\* const url = await getUrlVulkanSdk(version), with its HEAD request
GetUrlVulkanSdk ==
    /\ pc = "getUrlVulkanSdk"
    /\ Step("getUrlVulkanSdk")
    /\ \E distro \in LinuxDistributions, h \in HeadOutcomes :
          /\ headUrl' = getUrlVulkanSdk(version, distro)
          /\ head' = h
          /\ failures' = failures \o isDownloadable("VULKAN_SDK", h)
          /\ pc' = IF isDownloadableThrows(h) THEN "errorHandler"
                   ELSE "downloadSdk"
    /\ UNCHANGED <<inputVars, inputsVersion, destination, version, warnings,
                   restoreArgs, saveArgs, cacheHit, downloadUrl, installPath,
                   sdkPath, fs>>
    /\ UNCHANGED <<latestResponse, runtimeInstallPath, runVars>>
    /\ UNCHANGED componentVars
    /\ UNCHANGED installerProcess

\* const sdkPath = await tc.downloadTool(url, ...)
DownloadSdk ==
    /\ pc = "downloadSdk"
    /\ Step("downloadSdk")
    /\ downloadUrl' = headUrl
    /\ head' = NoHead
    /\ \E ok \in BOOLEAN : pc' = IF ok THEN "installSdk" ELSE "errorHandler"
    /\ UNCHANGED <<inputVars, inputsVersion, destination, version, failures,
                   warnings, restoreArgs, saveArgs, cacheHit, headUrl,
                   installPath, sdkPath, fs>>
    /\ UNCHANGED <<latestResponse, runtimeInstallPath, runVars>>
    /\ UNCHANGED componentVars
    /\ UNCHANGED installerProcess

\* where getVulkanSdk goes once the SDK and the runtime are installed
AfterInstall == IF useCache THEN (IF stripdown THEN "stripdown" ELSE "saveCache")
                ELSE "return"

\* a run that handles the runtime on Windows whatever install_runtime says
wantsRuntimeIgnoringInput == IS_WINDOWS \/ IS_WINDOWS_ARM

\* whether getVulkanSdk downloads and installs the runtime
wantsRuntime == (IS_WINDOWS \/ IS_WINDOWS_ARM) /\ installRuntime

\* a Start-Process without -Wait: powershell returns once the installer is
\* launched
StartProcessReturnsAtLaunch == FALSE

\* Start-Process ... -Verb RunAs -Wait: powershell, and with it execSync,
\* returns only once the installer process has exited
StartProcessWait == TRUE

\* installPath = await installerVulkan.installVulkanSdk(...); on Windows
\* this gets as far as execSync launching the elevated installer
InstallSdk ==
    /\ pc = "installSdk"
    /\ Step("installSdk")
    /\ LET call == installVulkanSdk(destination, version)
           file == getVulkanSdkFilename(version)
       IN  IF call.procedure = "installVulkanSdkWindows"
           THEN /\ installerProcess' = "running"
                /\ pc' = "awaitInstaller"
                /\ UNCHANGED <<failures, fs, installPath>>
           ELSE \E o \in InstallOutcomes :
                   /\ failures' = failures \o installFailures(call.procedure, o)
                   /\ fs' = IF installWrites(call.procedure, file, o)
                            THEN [root |-> TRUE,
                                  dirs |-> ExtractedTree.dirs,
                                  files |-> ExtractedTree.files,
                                  contents |-> ExtractedTree.contents,
                                  version |-> version]
                            ELSE fs
                   /\ IF installThrows(call.procedure, file, o)
                      THEN /\ pc' = "errorHandler"
                           /\ UNCHANGED installPath
                      ELSE /\ installPath' = call.destination
                           /\ pc' = IF wantsRuntime THEN "getUrlVulkanRuntime"
                                    ELSE AfterInstall
                   /\ UNCHANGED installerProcess
    /\ UNCHANGED <<head, inputVars, inputsVersion, destination, version, warnings,
                   restoreArgs, saveArgs, cacheHit, headUrl, downloadUrl, sdkPath>>
    /\ UNCHANGED <<latestResponse, runtimeInstallPath, runVars>>
    /\ UNCHANGED componentVars

\* the elevated installer process: it writes the SDK tree into its root
\* and exits, or fails
InstallerProcess ==
    /\ installerProcess = "running"
    /\ LET file == getVulkanSdkFilename(version)
       IN  \E o \in InstallOutcomes, tree \in InstalledTrees :
              /\ fs' = IF installWrites("installVulkanSdkWindows", file, o)
                       THEN [root |-> TRUE, dirs |-> tree.dirs,
                             files |-> tree.files, contents |-> tree.contents,
                             version |-> version]
                       ELSE fs
              /\ installerProcess' =
                    IF installFailures("installVulkanSdkWindows", o) = <<>>
                    THEN "exited" ELSE "failed"
    /\ UNCHANGED <<pc, trace, head, inputVars, inputsVersion, destination, version,
                   failures, warnings, restoreArgs, saveArgs, cacheHit, headUrl,
                   downloadUrl, installPath, sdkPath>>
    /\ UNCHANGED <<latestResponse, runtimeInstallPath, runVars>>
    /\ UNCHANGED componentVars

\* execSync returns or throws into the catch block, and installVulkanSdk
\* returns the versionized destination
AwaitInstaller ==
    /\ pc = "awaitInstaller"
    /\ StartProcessWait => installerProcess # "running"
    /\ failures' = failures \o (IF installerProcess = "failed"
                                THEN <<"installer">> ELSE <<>>)
    /\ installPath' = installVulkanSdk(destination, version).destination
    /\ pc' = IF wantsRuntime THEN "getUrlVulkanRuntime" ELSE AfterInstall
    /\ UNCHANGED <<trace, head, inputVars, inputsVersion, destination, version,
                   warnings, restoreArgs, saveArgs, cacheHit, headUrl,
                   downloadUrl, sdkPath, fs>>
    /\ UNCHANGED <<latestResponse, runtimeInstallPath, runVars>>
    /\ UNCHANGED componentVars
    /\ UNCHANGED installerProcess

\* const url = await getUrlVulkanRuntime(version), with its HEAD request
GetUrlVulkanRuntime ==
    /\ pc = "getUrlVulkanRuntime"
    /\ Step("getUrlVulkanRuntime")
    /\ \E h \in HeadOutcomes :
          /\ headUrl' = getUrlVulkanRuntime(version)
          /\ head' = h
          /\ failures' = failures \o isDownloadable("VULKAN_RUNTIME", h)
          /\ pc' = IF isDownloadableThrows(h) THEN "errorHandler"
                   ELSE "downloadRuntime"
    /\ UNCHANGED <<inputVars, inputsVersion, destination, version, warnings,
                   restoreArgs, saveArgs, cacheHit, downloadUrl, installPath,
                   sdkPath, fs>>
    /\ UNCHANGED <<latestResponse, runtimeInstallPath, runVars>>
    /\ UNCHANGED componentVars
    /\ UNCHANGED installerProcess

\* const runtimePath = await tc.downloadTool(url, ...)
DownloadRuntime ==
    /\ pc = "downloadRuntime"
    /\ Step("downloadRuntime")
    /\ downloadUrl' = headUrl
    /\ head' = NoHead
    /\ \E ok \in BOOLEAN : pc' = IF ok THEN "installRuntime" ELSE "errorHandler"
    /\ UNCHANGED <<inputVars, inputsVersion, destination, version, failures,
                   warnings, restoreArgs, saveArgs, cacheHit, headUrl,
                   installPath, sdkPath, fs>>
    /\ UNCHANGED <<latestResponse, runtimeInstallPath, runVars>>
    /\ UNCHANGED componentVars
    /\ UNCHANGED installerProcess

\* await installerVulkan.installVulkanRuntime(...): the copy creates
\* destination/version/runtime
InstallRuntime ==
    /\ pc = "installRuntime"
    /\ Step("installRuntime")
    /\ \E ok \in BOOLEAN :
          IF ok
          THEN /\ fs' = [fs EXCEPT !.root = TRUE, !.dirs = @ \cup {"runtime"},
                                    !.contents = @ \cup RuntimeFiles]
               /\ runtimeInstallPath' = installVulkanRuntime(destination, version)
               /\ pc' = AfterInstall
          ELSE /\ pc' = "errorHandler"
               /\ UNCHANGED <<fs, runtimeInstallPath>>
    /\ UNCHANGED <<head, inputVars, inputsVersion, destination, version, failures,
                   warnings, restoreArgs, saveArgs, cacheHit, headUrl,
                   downloadUrl, installPath, sdkPath>>
    /\ UNCHANGED <<latestResponse, runVars>>
    /\ UNCHANGED componentVars
    /\ UNCHANGED installerProcess

\* installerVulkan.stripdownInstallationOfSdk(installPath)
Stripdown ==
    /\ pc = "stripdown"
    /\ Step("stripdown")
    /\ fs' = stripdownInstallationOfSdk(fs)
    /\ pc' = IF stripdownThrows(fs) THEN "errorHandler" ELSE "saveCache"
    /\ UNCHANGED <<head, inputVars, inputsVersion, destination, version, failures,
                   warnings, restoreArgs, saveArgs, cacheHit, headUrl,
                   downloadUrl, installPath, sdkPath>>
    /\ UNCHANGED <<latestResponse, runtimeInstallPath, runVars>>
    /\ UNCHANGED componentVars
    /\ UNCHANGED installerProcess

\* what cache.saveCache may do
SaveOutcomes == {"saved", "notSaved", "throws"}

\* a getVulkanSdk without the try block around cache.saveCache
saveCacheThrowsUncaught(o) == o = "throws"

\* a catch block of cache.saveCache that calls core.setFailed
saveCacheFailuresRecorded(o) == IF o = "throws" THEN <<"saveCache">> ELSE <<>>

\* the try block around cache.saveCache: the warnings logged, the failures
\* recorded and whether the error escapes
saveCacheWarnings(o) == IF o = "throws" THEN <<"saveCache">> ELSE <<>>
saveCacheFailures(o) == <<>>
saveCacheThrows(o) == FALSE

\* the arguments getVulkanSdk hands to cache.saveCache
saveCacheArgs(path, keys) == <<<<path>>, keys.cachePrimaryKey>>

\* const cacheId = await cache.saveCache([installPath], cachePrimaryKey)
SaveCache ==
    /\ pc = "saveCache"
    /\ Step("saveCache")
    /\ saveArgs' = saveCacheArgs(installPath, getCacheKeys(version, destination))
    /\ \E o \in SaveOutcomes :
          /\ warnings' = warnings \o saveCacheWarnings(o)
          /\ failures' = failures \o saveCacheFailures(o)
          /\ cacheStore' = IF o = "saved"
                           THEN cacheStore \cup
                                {getCacheKeys(version, destination).cachePrimaryKey}
                           ELSE cacheStore
          /\ pc' = IF saveCacheThrows(o) THEN "errorHandler" ELSE "return"
    /\ UNCHANGED <<head, os, arch, rawVersion, rawDestination, useCache, stripdown,
                   installRuntime, rawOptionalComponents, inputsVersion, destination, version,
                   restoreArgs, cacheHit, headUrl, downloadUrl, installPath,
                   sdkPath, fs>>
    /\ UNCHANGED <<latestResponse, runtimeInstallPath, runVars>>
    /\ UNCHANGED componentVars
    /\ UNCHANGED installerProcess

\* return installPath
ReturnInstallPath ==
    /\ pc = "return"
    /\ sdkPath' = installPath
    /\ pc' = "verifySdk"
    /\ UNCHANGED <<head, inputVars, inputsVersion, destination, version, trace,
                   failures, warnings, restoreArgs, saveArgs, cacheHit, headUrl,
                   downloadUrl, installPath, fs>>
    /\ UNCHANGED <<latestResponse, runtimeInstallPath, runVars>>
    /\ UNCHANGED componentVars
    /\ UNCHANGED installerProcess

\* a run that treats an absent probe as an error
VerifySdkThrowsOnAbsent ==
    /\ pc = "verifySdk"
    /\ \E p \in getVulkanSdkPath(sdkPath, version),
          found \in (IF fs.root THEN BOOLEAN ELSE {FALSE}),
          ldLibraryPath \in LdLibraryPaths :
          /\ runInstallPath' = p
          /\ IF found
             THEN /\ trace' = trace \o <<"verifySdk", "exportEnv">>
                  /\ env' = exportEnv(p, version, ldLibraryPath)
                  /\ pc' = IF wantsRuntime THEN "verifyRuntime" ELSE "done"
             ELSE /\ trace' = Append(trace, "verifySdk")
                  /\ pc' = "errorHandler"
                  /\ UNCHANGED env
    /\ UNCHANGED <<head, inputVars, inputsVersion, destination, version, failures,
                   warnings, restoreArgs, saveArgs, cacheHit, headUrl,
                   downloadUrl, installPath, sdkPath, fs, latestResponse,
                   runtimeInstallPath, componentVars, installerProcess>>

\* const installPath = installerVulkan.getVulkanSdkPath(sdkPath, version)
\* if (installerVulkan.verifyInstallationOfSdk(installPath)) { exports }
\* else { warning }
VerifySdk ==
    /\ pc = "verifySdk"
    /\ \E p \in getVulkanSdkPath(sdkPath, version),
          found \in (IF fs.root THEN BOOLEAN ELSE {FALSE}),
          ldLibraryPath \in LdLibraryPaths :
          /\ runInstallPath' = p
          /\ IF found
             THEN /\ trace' = trace \o <<"verifySdk", "exportEnv">>
                  /\ env' = exportEnv(p, version, ldLibraryPath)
                  /\ UNCHANGED warnings
             ELSE /\ trace' = Append(trace, "verifySdk")
                  /\ warnings' = Append(warnings, "verifySdk")
                  /\ UNCHANGED env
    /\ pc' = IF wantsRuntime THEN "verifyRuntime" ELSE "done"
    /\ UNCHANGED <<head, inputVars, inputsVersion, destination, version, failures,
                   restoreArgs, saveArgs, cacheHit, headUrl, downloadUrl,
                   installPath, sdkPath, fs>>
    /\ UNCHANGED <<latestResponse, runtimeInstallPath>>
    /\ UNCHANGED componentVars
    /\ UNCHANGED installerProcess

\* if (installerVulkan.verifyInstallationOfRuntime(installPath)) ... else warning
VerifyRuntime ==
    /\ pc = "verifyRuntime"
    /\ Step("verifyRuntime")
    /\ \E found \in (IF "runtime" \in fs.dirs THEN BOOLEAN ELSE {FALSE}) :
          warnings' = IF found THEN warnings ELSE Append(warnings, "verifyRuntime")
    /\ pc' = "done"
    /\ UNCHANGED <<head, inputVars, inputsVersion, destination, version, failures,
                   restoreArgs, saveArgs, cacheHit, headUrl, downloadUrl,
                   installPath, sdkPath, fs>>
    /\ UNCHANGED <<latestResponse, runtimeInstallPath, runVars>>
    /\ UNCHANGED componentVars
    /\ UNCHANGED installerProcess

\* core.info(`Done.`)
Done ==
    /\ pc = "done"
    /\ Step("done")
    /\ pc' = "exit"
    /\ UNCHANGED <<head, inputVars, inputsVersion, destination, version, failures,
                   warnings, restoreArgs, saveArgs, cacheHit, headUrl,
                   downloadUrl, installPath, sdkPath, fs>>
    /\ UNCHANGED <<latestResponse, runtimeInstallPath, runVars>>
    /\ UNCHANGED componentVars
    /\ UNCHANGED installerProcess

\* catch (error) { errorHandler(error) }
ErrorHandler ==
    /\ pc = "errorHandler"
    /\ Step("errorHandler")
    /\ failures' = Append(failures, "errorHandler")
    /\ pc' = "exit"
    /\ UNCHANGED <<head, inputVars, inputsVersion, destination, version, warnings,
                   restoreArgs, saveArgs, cacheHit, headUrl, downloadUrl,
                   installPath, sdkPath, fs>>
    /\ UNCHANGED <<latestResponse, runtimeInstallPath, runVars>>
    /\ UNCHANGED componentVars
    /\ UNCHANGED installerProcess

Next ==
    \/ GetInputs
    \/ ResolveVersion
    \/ EnterGetVulkanSdk
    \/ RestoreCache
    \/ GetUrlVulkanSdk
    \/ DownloadSdk
    \/ InstallSdk
    \/ InstallerProcess
    \/ AwaitInstaller
    \/ GetUrlVulkanRuntime
    \/ DownloadRuntime
    \/ InstallRuntime
    \/ Stripdown
    \/ SaveCache
    \/ ReturnInstallPath
    \/ VerifySdk
    \/ VerifyRuntime
    \/ Done
    \/ ErrorHandler

Spec == Init /\ [][Next]_vars

\* getInputs alone, on every optional_components input up to MaxInputLen
\* pieces
InitInputs ==
    /\ \E p \in Platforms : os = p[1] /\ arch = p[2]
    /\ rawVersion \in {"", "1.3.250"}
    /\ rawDestination = <<>>
    /\ useCache = FALSE
    /\ stripdown = FALSE
    /\ installRuntime = FALSE
    /\ cacheStore = {}
    /\ rawOptionalComponents \in OptionalComponentsInputs
    /\ InitRun

SpecInputs == InitInputs /\ [][GetInputs]_vars

-----------------------------------------------------------------------------
(* Properties *)

Range(f) == {f[i] : i \in DOMAIN f}

Did(step) == step \in Range(trace)

\* the steps of getVulkanSdk after the cache restore
PipelineSteps ==
    {"getUrlVulkanSdk", "downloadSdk", "installSdk", "getUrlVulkanRuntime",
     "downloadRuntime", "installRuntime", "stripdown", "saveCache"}

\* C1: with caching enabled, once cache.restoreCache has reported a hit, the
\* run performs no SDK download, SDK install, runtime download or install,
\* stripdown or cache save, and getVulkanSdk returns the destination input
\* unchanged.
C1_HitShortCircuits ==
    cacheHit # <<>> =>
        /\ useCache
        /\ PipelineSteps \cap Range(trace) = {}
        /\ downloadUrl = <<>> /\ saveArgs = <<>> /\ installPath = <<>>
        /\ sdkPath = destination

C1_Witness ==
    /\ cacheHit # <<>>
    /\ pc = "exit"
    /\ Did("done")

\* a version token that is neither empty, nor "latest", nor of the
\* 4-component numeric form
Malformed(token) ==
    token # "" /\ token # "latest" /\ ~validateVersion(token)

\* C2: the version handed to the cache-key computation, the URL builder and
\* the downloader is always in the 4-component numeric form, and "latest"
\* never reaches getUrlVulkanSdk, whatever the latest-version fetch did.
\* Stated for the runs whose input token is well formed, the only ones in
\* which the version is the work of resolveVersion alone.
C2_VersionIsResolved ==
    ~Malformed(rawVersion) =>
        /\ Did("getCacheKeys") => validateVersion(version)
        /\ Did("getUrlVulkanSdk") => version # "latest" /\ validateVersion(version)
        /\ Did("downloadSdk") => validateVersion(version)

\* the resolution of "latest" has failed: the fetch threw, or the document
\* had no usable entry for the platform
ResolutionFailed ==
    /\ inputsVersion = "latest"
    /\ Did("resolveVersion")
    /\ ~validateVersion(version)

\* C3: when the token is "latest" and its resolution fails, the run ends as
\* a failure, and no cache restore, download, install or environment export
\* is performed after the failed resolution.
C3_FailedResolutionStopsRun ==
    ResolutionFailed =>
        /\ ~Did("restoreCache") /\ ~Did("getUrlVulkanSdk") /\ ~Did("downloadSdk")
        /\ ~Did("installSdk") /\ ~Did("exportEnv")
        /\ pc = "exit" => failures # <<>>

\* C4: getInputVersion rejects every malformed non-empty version token, so
\* that a malformed token never reaches resolveVersion or a later step; the
\* empty token becomes "latest" and is no error.
C4_MalformedTokenRejected ==
    /\ Malformed(rawVersion) =>
          /\ ~Did("resolveVersion")
          /\ inputsVersion # rawVersion
          /\ Did("getInputs") => pc \in {"errorHandler", "exit"}
    /\ (rawVersion = "" /\ Did("getInputs")) =>
          inputsVersion = "latest" /\ pc # "errorHandler"

\* C5: when cache.saveCache throws after a completed install, the error is
\* caught and logged as a warning only: the save step records no failure
\* and does not end the run, and getVulkanSdk returns the installPath the
\* install step produced, as it does when the save succeeds.
C5_SaveFailureIsWarningOnly ==
    /\ [][(pc = "saveCache" /\ warnings' # warnings) =>
             /\ failures' = failures
             /\ installPath' = installPath
             /\ pc' = "return"]_vars
    /\ []((Did("saveCache") /\ pc \in {"verifySdk", "verifyRuntime", "done", "exit"}) =>
             /\ sdkPath = installPath
             /\ sdkPath = installVulkanSdk(destination, version).destination
             /\ ~Did("errorHandler"))

C5_Witness ==
    /\ "saveCache" \in Range(warnings)
    /\ pc = "exit"
    /\ sdkPath = installPath
    /\ Did("installSdk")

\* C6: a cache save is attempted only with caching enabled and after a
\* restore miss, only after the install step (and the runtime install, when
\* it is wanted) has returned, with the primary key and on the installPath
\* of the install step; stripdown runs strictly before that save, and never
\* on a path where no save is attempted.
C6_SaveAfterInstall ==
    /\ Did("saveCache") =>
          /\ useCache /\ Did("restoreCache") /\ cacheHit = <<>>
          /\ Did("installSdk")
          /\ wantsRuntime => Did("installRuntime")
          /\ saveArgs = <<<<installVulkanSdk(destination, version).destination>>,
                          getCacheKeys(version, destination).cachePrimaryKey>>
          /\ saveArgs[2] \notin Range(getCacheKeys(version, destination).cacheRestoreKeys)
    /\ (Did("stripdown") /\ pc # "saveCache") => Did("saveCache")
    /\ (Did("stripdown") /\ Did("saveCache")) =>
          \E i, j \in DOMAIN trace :
             i < j /\ trace[i] = "stripdown" /\ trace[j] = "saveCache"

\* C7: the path set handed to cache.restoreCache equals the path set handed
\* to cache.saveCache in the same miss run; on Windows-family both are the
\* version-qualified folder destination/version, not the bare destination.
C7_RestoreAndSavePathsAgree ==
    Did("saveCache") =>
        /\ saveArgs[1] = restoreArgs[1]
        /\ IS_WINDOWS =>
              /\ saveArgs[1] = <<normalize(Slash(destination, version))>>
              /\ saveArgs[1] # <<destination>>

C7_Witness ==
    /\ Did("saveCache")
    /\ IS_WARM
    /\ rawDestination = <<>>
    /\ pc = "exit"

HeadSucceeded == head.kind = "status" /\ head.code = 200

\* C9: the reachability pre-check records a failure for every HEAD outcome
\* that is not a success: every status other than 200 and every request
\* error marks the action failed.
C9_PrecheckFailsOnNon200 ==
    /\ (pc = "downloadSdk" /\ ~HeadSucceeded) => "VULKAN_SDK" \in Range(failures)
    /\ (pc = "downloadRuntime" /\ ~HeadSucceeded) =>
          "VULKAN_RUNTIME" \in Range(failures)

\* C10: whatever the HEAD request did, isDownloadable returns normally and
\* the download of the same URL is attempted next: the pre-check alone
\* never sends the run to the error handler.
C10_PrecheckNeverAborts ==
    /\ [][pc = "getUrlVulkanSdk" => pc' = "downloadSdk"]_vars
    /\ [][pc = "getUrlVulkanRuntime" => pc' = "downloadRuntime"]_vars
    /\ [][(pc \in {"downloadSdk", "downloadRuntime"}) =>
             (downloadUrl' = headUrl /\ "downloadSdk" \in Range(trace'))]_vars
    /\ [](pc \in {"downloadSdk", "downloadRuntime"} => head \in HeadOutcomes)

C10_Witness ==
    /\ "VULKAN_SDK" \in Range(failures)
    /\ Did("downloadSdk")
    /\ downloadUrl = headUrl
    /\ downloadUrl # <<>>
    /\ pc = "installSdk"

\* the field of a latest-versions document that belongs to the platform
\* family of the run
PlatformField(doc) ==
    IF IS_WINDOWS /\ arch = "arm64" THEN doc.warm
    ELSE IF IS_WINDOWS THEN doc.windows
    ELSE IF IS_LINUX THEN doc.linux
    ELSE doc.mac

\* C11: when "latest" is resolved from a fetched latest-versions document,
\* the version chosen is the document's field for the platform family of the
\* run: windows on non-ARM Windows, warm on Windows ARM, linux on Linux of
\* either architecture, mac on Mac.
C11_LatestIsPlatformField ==
    (pc = "getVulkanSdk" /\ latestResponse # NoResponse) =>
        version = PlatformField(latestResponse)

\* the canonical name of the platform family of the run
CanonicalName ==
    IF IS_WINDOWS /\ arch = "arm64" THEN "warm"
    ELSE IF IS_WINDOWS THEN "windows"
    ELSE IF IS_LINUX THEN "linux"
    ELSE "mac"

VendorHost == "https://sdk.lunarg.com/sdk/download/"

\* C12: getPlatform returns "windows" on non-ARM Windows, "warm" on Windows
\* ARM, "linux" on Linux and "mac" on Mac, and that name is the one in the
\* vendor download URLs of the SDK and the runtime and in the cache keys.
C12_CanonicalPlatformName ==
    /\ Did("getCacheKeys") => getPlatform = CanonicalName
    /\ (pc \in {"downloadSdk", "downloadRuntime"} /\ headUrl[1] = VendorHost) =>
          CanonicalName \in Range(headUrl)
    /\ Did("restoreCache") => restoreArgs[2][2] = CanonicalName

CommunityHost == "https://github.com/jakoch/vulkan-sdk-arm/releases/download/"

\* C13: on Linux with ARM architecture the SDK URL of getUrlVulkanSdk is on
\* the community host, not the vendor host, with the file name
\* vulkansdk-ubuntu-{distro}-arm-{version}.tar.xz, distro being 20.04 or
\* 24.04.
C13_LinuxArmCommunityUrl ==
    (IS_LINUX /\ arch = "arm64" /\ pc = "downloadSdk") =>
        \E distro \in {"20.04", "24.04"} :
           headUrl = Tpl(<<CommunityHost, version, "/vulkansdk-ubuntu-", distro,
                           "-arm-", version, ".tar.xz">>)

\* the dot-stripped digits of a version token read as an integer
DigitsAsInteger(v) == DigitsValue(StripDots(Chars(v)), 0)

\* every version of the list, whatever the inputs of the run draw from it
AllVersions == Range(VersionList)

\* the last n pieces of a URL
Ending(url, n) == SubSeq(url, Len(url) - n + 1, Len(url))

\* C14: on non-ARM Linux, for every version the SDK URL ends with
\* vulkansdk-linux-x86_64-{version}.tar.xz when the digits of the version
\* exceed those of 1.3.250.1 and with .tar.gz otherwise; the URL depends on
\* the version and the platform only, and it is the URL the run requests.
C14_LinuxExtensionByThreshold ==
    (IS_LINUX /\ arch = "x64") =>
        /\ pc = "getUrlVulkanSdk" =>
              \A v \in AllVersions, distro \in LinuxDistributions :
                 /\ Ending(getUrlVulkanSdk(v, distro), 4) =
                       <<"/vulkansdk-linux-x86_64-", v, ".",
                         IF DigitsAsInteger(v) > DigitsAsInteger("1.3.250.1")
                         THEN "tar.xz" ELSE "tar.gz">>
                 /\ getUrlVulkanSdk(v, distro) = getUrlVulkanSdk(v, "")
        /\ (pc = "downloadSdk" /\ validateVersion(version)) =>
              /\ headUrl = getUrlVulkanSdk(version, "")
              /\ Ending(headUrl, 1) =
                    <<IF DigitsAsInteger(version) > DigitsAsInteger("1.3.250.1")
                      THEN "tar.xz" ELSE "tar.gz">>

C14_Witness ==
    /\ IS_LINUX /\ arch = "x64"
    /\ pc = "installSdk"
    /\ version = "1.3.250.1"
    /\ downloadUrl = <<VendorHost, "1.3.250.1", "/", "linux",
                       "/vulkansdk-linux-x86_64-", "1.3.250.1", ".", "tar.gz">>

\* C15: on Mac, for every version the SDK URL ends with .zip when the digits
\* of the version exceed those of 1.3.290.0 and with .dmg otherwise, and it
\* is the URL the run requests.
C15_MacExtensionByThreshold ==
    IS_MAC =>
        /\ pc = "getUrlVulkanSdk" =>
              \A v \in AllVersions, distro \in LinuxDistributions :
                 Ending(getUrlVulkanSdk(v, distro), 4) =
                    <<"/vulkansdk-macos-", v, ".",
                      IF DigitsAsInteger(v) > DigitsAsInteger("1.3.290.0")
                      THEN "zip" ELSE "dmg">>
        /\ (pc = "downloadSdk" /\ validateVersion(version)) =>
              /\ headUrl = getUrlVulkanSdk(version, "")
              /\ Ending(headUrl, 1) =
                    <<IF DigitsAsInteger(version) > DigitsAsInteger("1.3.290.0")
                      THEN "zip" ELSE "dmg">>

C15_Witness ==
    /\ IS_MAC
    /\ pc = "installSdk"
    /\ version = "1.3.290.0"
    /\ downloadUrl = <<VendorHost, "1.3.290.0", "/", "mac",
                       "/vulkansdk-macos-", "1.3.290.0", ".", "dmg">>

\* C16: for all version strings v1 and v2, compare(v1, v2) is 1 exactly when
\* the dot-stripped digits of v1, read as an integer, exceed those of v2,
\* and then compare(v2, v1) is -1; compare(v, v) is 0 for every v.  Stated
\* where getUrlVulkanSdk is about to call compare, for the versions of the
\* list and the version of the run.
C16_CompareAntisymmetricReflexive ==
    pc = "getUrlVulkanSdk" =>
        LET vs == AllVersions \cup
                  (IF validateVersion(version) THEN {version} ELSE {})
        IN  \A v1, v2 \in vs :
               /\ compare(v1, v2) = 1 <=> DigitsAsInteger(v1) > DigitsAsInteger(v2)
               /\ compare(v1, v2) = 1 => compare(v2, v1) = -1
               /\ compare(v1, v2) = -1 => compare(v2, v1) = 1
               /\ compare(v1, v1) = 0

C16_Witness ==
    /\ pc = "downloadSdk"
    /\ IS_MAC
    /\ version = "1.4.304.0"
    /\ compare(version, "1.3.290.0") = 1
    /\ compare("1.3.290.0", version) = -1
    /\ Ending(headUrl, 1) = <<"zip">>

\* step a was performed before step b
Before(a, b) ==
    \E i, j \in DOMAIN trace : i < j /\ trace[i] = a /\ trace[j] = b

RuntimeSteps ==
    {"getUrlVulkanRuntime", "downloadRuntime", "installRuntime", "verifyRuntime"}

\* C17: the runtime is downloaded, installed and verified only on a
\* Windows-family platform with install_runtime true; on a cache-miss run
\* the runtime install comes after the SDK install and before the cache
\* save and copies into destination/version/runtime; with install_runtime
\* false no runtime warning is emitted.
C17_RuntimeOnlyWhenWanted ==
    /\ RuntimeSteps \cap Range(trace) # {} => IS_WINDOWS /\ installRuntime
    /\ Did("installRuntime") =>
          /\ cacheHit = <<>>
          /\ Before("installSdk", "installRuntime")
          /\ ~Before("saveCache", "installRuntime")
          /\ ~Before("stripdown", "installRuntime")
    /\ runtimeInstallPath # <<>> =>
          /\ Did("installRuntime")
          /\ runtimeInstallPath = normalize(destination \o <<version, "runtime">>)
          /\ "runtime" \in fs.dirs
    /\ (Did("saveCache") /\ IS_WINDOWS /\ installRuntime) =>
          Before("installRuntime", "saveCache") /\ runtimeInstallPath # <<>>
    /\ ~installRuntime => "verifyRuntime" \notin Range(warnings)

C17_Witness ==
    /\ pc = "exit"
    /\ Did("done")
    /\ IS_WARM /\ installRuntime
    /\ Before("installSdk", "installRuntime")
    /\ Before("installRuntime", "saveCache")
    /\ Did("verifyRuntime")
    /\ runtimeInstallPath = <<"C:", "VulkanSDK", "1.3.290.0", "runtime">>

BaseExports == {"PATH", "VULKAN_SDK", "VULKAN_VERSION"}

\* C18: when the SDK verification probe succeeds, the run exports PATH with
\* <install>/bin in front, VULKAN_SDK = the install path and VULKAN_VERSION
\* = the resolved version; on Linux also VK_LAYER_PATH and LD_LIBRARY_PATH,
\* on Mac VK_LAYER_PATH and DYLD_LIBRARY_PATH, on Windows-family none of
\* these three.
C18_ExportsOnSuccessfulProbe ==
    Did("exportEnv") =>
        /\ Did("installSdk") \/ cacheHit # <<>>
        /\ Head(env.PATH) = normalize(runInstallPath \o <<"bin">>)
        /\ Tail(env.PATH) = PreexistingPath
        /\ env.VULKAN_SDK = runInstallPath
        /\ env.VULKAN_VERSION = version
        /\ IS_LINUX =>
              /\ DOMAIN env = BaseExports \cup {"VK_LAYER_PATH", "LD_LIBRARY_PATH"}
              /\ env.LD_LIBRARY_PATH[1] = runInstallPath \o <<"lib">>
        /\ IS_MAC =>
              /\ DOMAIN env = BaseExports \cup {"VK_LAYER_PATH", "DYLD_LIBRARY_PATH"}
              /\ env.DYLD_LIBRARY_PATH[1] = runInstallPath \o <<"lib">>
        /\ (IS_LINUX \/ IS_MAC) =>
              env.VK_LAYER_PATH =
                  runInstallPath \o <<"etc", "vulkan", "explicit_layer.d">>
        /\ IS_WINDOWS => DOMAIN env = BaseExports

C18_Witness ==
    /\ pc = "exit"
    /\ Did("installSdk") /\ Did("exportEnv") /\ Did("done")
    /\ IS_LINUX
    /\ version = "1.4.304.0"
    /\ env.VULKAN_VERSION = "1.4.304.0"
    /\ env.LD_LIBRARY_PATH = <<runInstallPath \o <<"lib">>, <<"", "usr", "lib">> >>
    /\ Head(env.PATH) = runInstallPath \o <<"bin">>

\* C19: when the SDK verification probe is absent after getVulkanSdk has
\* returned, the run logs a warning, records no failure for it, exports no
\* variable, and goes on to the runtime verification or the final log line
\* and to its end.
C19_AbsentProbeIsWarningOnly ==
    /\ [][(pc = "verifySdk" /\ "exportEnv" \notin Range(trace')) =>
             /\ warnings' = Append(warnings, "verifySdk")
             /\ failures' = failures
             /\ env' = env
             /\ pc' \in {"verifyRuntime", "done"}]_vars
    /\ []("verifySdk" \in Range(warnings) =>
             /\ DOMAIN env = {}
             /\ ~Did("exportEnv")
             /\ ~Did("errorHandler")
             /\ pc \in {"verifyRuntime", "done", "exit"}
             /\ pc = "exit" => Did("done"))

C19_Witness ==
    /\ pc = "exit"
    /\ "verifySdk" \in Range(warnings)
    /\ Did("installSdk") /\ Did("done")
    /\ DOMAIN env = {}
    /\ failures = <<>>

ListedFolders == {"Demos", "Helpers", "installerResources", "Licenses", "Templates"}

\* C20: on Windows-family the stripdown of an existing install root removes
\* exactly the subfolders Demos, Helpers, installerResources, Licenses and
\* Templates that exist, with what they hold, and every regular file
\* directly in the root; every other subfolder and what it holds stay as
\* they are; a listed folder that is missing is logged and skipped, and the
\* step ends without error.  On Linux and Mac stripdown changes nothing.
C20_StripdownFrame ==
    /\ [][(pc = "stripdown" /\ fs.root) =>
             IF IS_WINDOWS
             THEN /\ fs'.dirs = fs.dirs \ ListedFolders
                  /\ fs'.files = {}
                  /\ fs'.contents = {c \in fs.contents : c[1] \notin ListedFolders}
                  /\ fs'.root
                  /\ pc' = "saveCache"
                  /\ failures' = failures
             ELSE /\ fs' = fs
                  /\ pc' = "saveCache"
                  /\ failures' = failures]_vars
    /\ []((pc = "stripdown" /\ IS_WINDOWS) =>
             \A folder \in ListedFolders \ fs.dirs :
                <<folder, "doesn't exist">> \in removeFoldersIfExistLog(fs))

C20_Witness ==
    /\ IS_WINDOWS
    /\ pc = "saveCache"
    /\ Did("stripdown") /\ Did("installRuntime")
    /\ fs.root
    /\ fs.dirs = {"bin", "runtime"}
    /\ fs.files = {}
    /\ fs.contents = {<<"bin", "vulkaninfoSDK.exe">>} \cup RuntimeFiles

\* the positions of the commas of an optional_components input
Commas(raw) == {i \in 1..Len(raw) : raw[i] = ","}

\* the position of the k-th comma; 0 before the input, Len + 1 after it
Boundary(raw, k) ==
    IF k = 0 THEN 0
    ELSE IF k > Cardinality(Commas(raw)) THEN Len(raw) + 1
    ELSE CHOOSE i \in Commas(raw) : Cardinality({j \in Commas(raw) : j <= i}) = k

\* an entry without the blanks around it
Trimmed(e) ==
    LET ns == {i \in 1..Len(e) : e[i] # " "}
    IN  IF ns = {} THEN <<>>
        ELSE SubSeq(e, CHOOSE i \in ns : \A j \in ns : i <= j,
                       CHOOSE i \in ns : \A j \in ns : i >= j)

\* the comma-separated entries of the input, trimmed, in input order
Entries(raw) ==
    [k \in 1..(Cardinality(Commas(raw)) + 1) |->
        Trimmed(SubSeq(raw, Boundary(raw, k - 1) + 1, Boundary(raw, k) - 1))]

Allowed(e) == Len(e) = 1 /\ e[1] \in optionalComponentsAllowlist

\* C21: getInputOptionalComponents returns exactly the comma-separated,
\* trimmed, non-empty entries of the input that are in the allow-list, in
\* input order; every returned entry is an allow-list member, the other
\* non-empty entries are the ones reported as invalid, and the empty input
\* gives the empty list.
C21_OptionalComponentsFilter ==
    pc = "resolveVersion" =>
        /\ optionalComponents =
              SelectSeq(Entries(rawOptionalComponents), Allowed)
        /\ \A i \in DOMAIN optionalComponents : Allowed(optionalComponents[i])
        /\ invalidInputComponents =
              SelectSeq(Entries(rawOptionalComponents),
                        LAMBDA e : e # <<>> /\ ~Allowed(e))
        /\ rawOptionalComponents = <<>> =>
              optionalComponents = <<>> /\ invalidInputComponents = <<>>

C21_Witness ==
    /\ pc = "resolveVersion"
    /\ rawOptionalComponents = <<" ", "com.lunarg.vulkan.vma", ",", "bogus.one">>
    /\ optionalComponents = << <<"com.lunarg.vulkan.vma">> >>
    /\ invalidInputComponents = << <<"bogus.one">> >>

\* the core.setFailed calls of the top-level handler
HandlerFailures == {i \in DOMAIN failures : failures[i] = "errorHandler"}

\* C22 as claimed: the failure status is set at most once per run, and only
\* by the top-level handler.
C22_SingleFailureAnnotation ==
    /\ Len(failures) <= 1
    /\ \A i \in DOMAIN failures : failures[i] = "errorHandler"

\* C22, amended: the top-level handler sets the failure status at most once
\* per run, as the last thing the run does; the other core.setFailed calls
\* are those of version resolution, of the two reachability pre-checks and
\* of the install procedure, which record their failure and let the run go
\* on, so that a run may carry several failure annotations.
C22_HandlerSetsFailureOnce ==
    /\ [](/\ Cardinality(HandlerFailures) <= 1
          /\ HandlerFailures # {} =>
                (failures[Len(failures)] = "errorHandler" /\ pc = "exit"))
    /\ [][failures' # failures =>
             /\ pc \in {"resolveVersion", "getUrlVulkanSdk", "getUrlVulkanRuntime",
                        "installSdk", "awaitInstaller", "errorHandler"}
             /\ pc = "errorHandler" <=>
                   failures' = Append(failures, "errorHandler")]_vars

C22_Witness ==
    /\ pc = "exit"
    /\ failures = <<"VULKAN_SDK", "errorHandler">>
    /\ Did("downloadSdk")

OrderedSteps ==
    <<"resolveVersion", "restoreCache", "downloadSdk", "installSdk", "saveCache",
      "exportEnv">>

OrderedStepSet == Range(OrderedSteps)

\* the steps of OrderedSteps among those performed, in the order performed
OrderedStepsPerformed == SelectSeq(trace, LAMBDA step : step \in OrderedStepSet)

\* C23: the steps of a run occur in the order version resolution, cache
\* restore, SDK download, SDK install, cache save, environment export: none
\* of them comes before one that precedes it in this order, each is
\* performed at most once and only after the step it follows has been
\* performed, the record of the steps only grows at its end, and with
\* caching enabled the download and the install come after a restore
\* attempt that missed.
C23_FixedStepOrder ==
    /\ [](/\ OrderedStepsPerformed = SelectSeq(OrderedSteps, Did)
          /\ Cardinality(Range(trace)) = Len(trace)
          /\ Did("restoreCache") => Before("resolveVersion", "restoreCache")
          /\ Did("downloadSdk") =>
                /\ Before("resolveVersion", "downloadSdk")
                /\ useCache =>
                      Before("restoreCache", "downloadSdk") /\ cacheHit = <<>>
          /\ Did("installSdk") => Before("downloadSdk", "installSdk")
          /\ Did("saveCache") => Before("installSdk", "saveCache")
          /\ Did("exportEnv") =>
                \/ Before("installSdk", "exportEnv")
                \/ cacheHit # <<>> /\ Before("restoreCache", "exportEnv"))
    /\ [][trace' = trace \/ IsStrictPrefix(trace, trace')]_vars

C23_Witness ==
    /\ pc = "exit"
    /\ \A i \in DOMAIN OrderedSteps : Did(OrderedSteps[i])
    /\ \A i \in 1..(Len(OrderedSteps) - 1) :
          Before(OrderedSteps[i], OrderedSteps[i + 1])

\* the steps that follow installVulkanSdk in getVulkanSdk and run
StepsAfterInstall ==
    {"getUrlVulkanRuntime", "downloadRuntime", "installRuntime", "stripdown",
     "saveCache", "verifySdk", "exportEnv", "verifyRuntime", "done"}

\* C24: on Windows installVulkanSdkWindows returns only once the elevated
\* installer process has ended: while the process is running the run waits
\* inside the install call with no install path returned and none of the
\* later steps (runtime install, stripdown, cache save, SDK verification)
\* performed, and the run leaves the install call only with the process
\* exited or failed.
C24_InstallerExitedBeforeReturn ==
    /\ [](installerProcess = "running" =>
             /\ pc = "awaitInstaller"
             /\ installPath = <<>>
             /\ \A step \in StepsAfterInstall : ~Did(step))
    /\ []((installerProcess # "none") <=>
             ((IS_WINDOWS \/ IS_WARM) /\ Did("installSdk")))
    /\ [][(pc = "awaitInstaller" /\ pc' # "awaitInstaller") =>
             /\ installerProcess \in {"exited", "failed"}
             /\ installerProcess' = installerProcess]_vars

C24_Witness ==
    /\ IS_WINDOWS
    /\ installerProcess = "exited"
    /\ Did("installRuntime") /\ Did("stripdown") /\ Did("saveCache")
    /\ Did("verifySdk")

\* the step records the failure of the installer invocation
InstallerFailureRecorded == failures' = Append(failures, "installer")

C26_MacProcedureMatchesArtifact ==
    (IS_MAC /\ pc = "installSdk") =>
        \A v \in AllVersions \cup {version} :
           LET procedure == installVulkanSdk(destination, v).procedure
               extension == getVulkanSdkFilename(v)[2]
               ending == Ending(getUrlVulkanSdk(v, ""), 1)[1]
           IN  /\ procedure = "installVulkanSdkMacDmg" <=>
                     (extension = ".dmg" /\ ending = "dmg")
               /\ procedure = "installVulkanSdkMacZip" <=>
                     (extension = ".zip" /\ ending = "zip")

\* C27: for the same platform, destination and version getVulkanSdk returns
\* on a cache hit the path it returns after a cache miss and a successful
\* install, which is the destination installVulkanSdk hands back.
C27_SamePathOnHitAndMiss ==
    (pc = "verifySdk" /\ validateVersion(version)) =>
        sdkPath = installVulkanSdk(destination, version).destination

\* C28: whenever getVulkanSdk returns early on a cache hit, the restored
\* entry is the one saved under the primary key of the resolved version,
\* never one matched by a fallback key only, and the VULKAN_VERSION such a
\* run exports is the version of the SDK on disk.
C28_HitOnlyOnPrimaryKey ==
    /\ cacheHit # <<>> =>
          cacheHit = getCacheKeys(version, destination).cachePrimaryKey
    /\ (cacheHit # <<>> /\ "VULKAN_VERSION" \in DOMAIN env) =>
          env.VULKAN_VERSION = fs.version

\* the steps this step of the run performs
NewSteps == {trace'[i] : i \in DOMAIN trace' \ DOMAIN trace}

\* C29: a run that has recorded a failure does not afterwards export the
\* SDK environment variables or log the final success line, so a run that
\* ends with the success line has recorded no failure.
C29_NoSuccessAfterFailure ==
    /\ [][failures # <<>> => NewSteps \cap {"exportEnv", "done"} = {}]_vars
    /\ []((pc = "exit" /\ Did("done")) => failures = <<>>)


====
